---- MODULE Spec2Model ----
(***************************************************************************)
(* The image creator: the App component's session state and handlers, the  *)
(* ImageUploader's file handlers, fileToImageData / addWatermark and the   *)
(* response scan of generateOrEditImage.                                   *)
(*                                                                         *)
(* Text that the code parses or builds (data URLs, media types, base64)    *)
(* is a sequence of one-character strings, so that split(','), the regular *)
(* expression match and the template literals are computed, not assumed.   *)
(* Text that the code only passes along (the prompt, messages) is a string.*)
(***************************************************************************)
EXTENDS Naturals, Sequences, FiniteSets

VARIABLES
    selectedImage,   \* useState<ImageData | null>
    prompt,          \* useState<string>
    isLoading,       \* useState<boolean>
    loadingMessage,  \* useState<string>
    error,           \* useState<string | null>
    resultImage,     \* useState<string | null>
    modalImageUrl,   \* useState<string | null>
    reads,           \* files whose fileToImageData promise is pending
    inflight,        \* handleSubmit invocations suspended at an await
    calls,           \* number of generateContent requests issued so far
    sent             \* contentParts of the most recent request issued

vars == <<selectedImage, prompt, isLoading, loadingMessage, error, resultImage,
          modalImageUrl, reads, inflight, calls, sent>>

----------------------------------------------------------------------------
(* Bounds of the model *)

MaxSubmits == 2
MaxReads == 1
MaxParts == 2

----------------------------------------------------------------------------
(* JavaScript values *)

\* null / undefined in a position that otherwise holds text
Null == <<"null">>
Undefined == <<"undefined">>

\* !x is false exactly for these
Truthy(s) == s # Null /\ s # Undefined /\ s # <<>>

\* null in the position of an ImageData object
NullImage == [base64 |-> Null, mimeType |-> Null, url |-> Null]

\* null in the position of an error message; a missing .message property
NoError == "<null>"
NoMessage == "<undefined>"

TruthyMsg(m) == m # NoError /\ m # NoMessage /\ m # ""

----------------------------------------------------------------------------
(* Text *)

DataPrefix == <<"d", "a", "t", "a", ":">>
Base64Marker == <<";", "b", "a", "s", "e", "6", "4", ",">>
ImageSlash == <<"i", "m", "a", "g", "e", "/">>
ImagePng == ImageSlash \o <<"p", "n", "g">>
ImageJpeg == ImageSlash \o <<"j", "p", "e", "g">>
OctetStream == <<"a", "p", "p", "l", "i", "c", "a", "t", "i", "o", "n", "/",
                 "o", "c", "t", "e", "t", "-", "s", "t", "r", "e", "a", "m">>

\* t occurs in s starting at index i
OccursAt(s, t, i) ==
    /\ i >= 1
    /\ i + Len(t) - 1 <= Len(s)
    /\ SubSeq(s, i, i + Len(t) - 1) = t

\* String.prototype.startsWith
startsWith(s, t) == OccursAt(s, t, 1)

Min(S) == CHOOSE x \in S : \A y \in S : x <= y
Max(S) == CHOOSE x \in S : \A y \in S : x >= y

\* s.split(',')[1]: the text between the first comma and the next one (or
\* the end); undefined when s holds no comma
SplitComma1(s) ==
    LET commas == {i \in 1..Len(s) : s[i] = ","}
    IN  IF commas = {} THEN Undefined
        ELSE LET first == Min(commas)
                 later == {i \in commas : i > first}
                 stop == IF later = {} THEN Len(s) + 1 ELSE Min(later)
             IN  SubSeq(s, first + 1, stop - 1)

\* s.match(/data:(.*);base64,/)?.[1]: the leftmost "data:" that some later
\* ";base64," follows, the group taken greedily up to the last such marker;
\* undefined when nothing matches
MatchDataMime(s) ==
    LET ends(i) == {j \in (i + Len(DataPrefix))..Len(s) : OccursAt(s, Base64Marker, j)}
        starts == {i \in 1..Len(s) : OccursAt(s, DataPrefix, i) /\ ends(i) # {}}
    IN  IF starts = {} THEN Undefined
        ELSE LET i == Min(starts)
                 j == Max(ends(i))
             IN  SubSeq(s, i + Len(DataPrefix), j - 1)

----------------------------------------------------------------------------
(* Acquisition: fileToImageData *)

\* The files the user can pick or drop: a declared media type and content
FileBytes == {<<"Q", "Q">>}
FileTypes == {ImagePng, <<>>}
Files == [type : FileTypes, content : FileBytes]

\* The media type FileReader.readAsDataURL writes for a file that declares
\* none: the File API leaves the media type out, browsers write
\* application/octet-stream
UntypedAs == {<<>>, OctetStream}

\* reader.result of readAsDataURL
readAsDataURL(file, untyped) ==
    DataPrefix \o (IF file.type = <<>> THEN untyped ELSE file.type)
               \o Base64Marker \o file.content

\* the ImageData that reader.onload resolves with
fileToImageData(file, untyped) ==
    LET url == readAsDataURL(file, untyped)
    IN  [base64 |-> SplitComma1(url), mimeType |-> file.type, url |-> url]

----------------------------------------------------------------------------
(* Synthesis: generateOrEditImage *)

\* A content part of a request or of a response: { inlineData: { data,
\* mimeType } } or { text }
InlinePart(data, mimeType) ==
    [kind |-> "inlineData", data |-> data, mimeType |-> mimeType, text |-> ""]
TextPart(text) ==
    [kind |-> "text", data |-> Null, mimeType |-> Null, text |-> text]

\* if (part.inlineData): an object is truthy whatever its fields hold
HasInlineData(part) == part.kind = "inlineData"

\* `data:${mimeType};base64,${data}`
DataUrl(mimeType, data) == DataPrefix \o mimeType \o Base64Marker \o data

\* the contentParts of the request: the seed image when there is one, then
\* the prompt
BuildContentParts(p, imageData) ==
    (IF imageData # NullImage
        THEN <<InlinePart(imageData.base64, imageData.mimeType)>>
        ELSE <<>>)
    \o <<TextPart(p)>>

NoImageMessage == "No image was generated. Please try a different prompt."

\* What the remote service can answer with: a response without candidates
\* or content, or a response with up to MaxParts parts
ServiceParts ==
    {TextPart("note"), InlinePart(<<>>, ImagePng), InlinePart(<<"B", "B">>, ImageJpeg)}
PartLists == UNION {[1..n -> ServiceParts] : n \in 0..MaxParts}
Responses ==
    {[hasParts |-> FALSE, parts |-> <<>>]}
    \cup {[hasParts |-> TRUE, parts |-> ps] : ps \in PartLists}

\* response.candidates?.[0]?.content?.parts || []
PartsOf(response) == IF response.hasParts THEN response.parts ELSE <<>>

\* ScanParts as it would be if the loop kept going and the last part with
\* inlineData won
ScanParts_lastWins(parts, i) ==
    LET inline == {k \in i..Len(parts) : HasInlineData(parts[k])}
    IN  IF inline = {}
            THEN [ok |-> FALSE, value |-> Null, message |-> NoImageMessage]
            ELSE [ok |-> TRUE,
                  value |-> DataUrl(parts[Max(inline)].mimeType, parts[Max(inline)].data),
                  message |-> NoError]

\* the for loop over the parts, from index i on: the first part with
\* inlineData returns, falling off the end throws
RECURSIVE ScanParts(_, _)
ScanParts(parts, i) ==
    IF i > Len(parts)
        THEN [ok |-> FALSE, value |-> Null, message |-> NoImageMessage]
    ELSE IF HasInlineData(parts[i])
        THEN [ok |-> TRUE, value |-> DataUrl(parts[i].mimeType, parts[i].data),
              message |-> NoError]
    ELSE ScanParts(parts, i + 1)

\* what generateOrEditImage settles with once the service has answered
generateOrEditImage(response) == ScanParts(PartsOf(response), 1)

\* what the service call itself can reject with: an Error with a message,
\* an Error with an empty message, a thrown value without a message
ServiceErrors == {"Network error", "", NoMessage}

----------------------------------------------------------------------------
(* Watermarking: addWatermark *)

\* canvas.toDataURL('image/png') of the composited surface
CanvasBytes == {<<"W", "1">>, <<"W", "2">>}
toDataURL(bytes) == DataUrl(ImagePng, bytes)

\* reject(new Error('Could not get canvas context')); img.onerror rejects
\* with an event, which has no message
WatermarkErrors == {"Could not get canvas context", NoMessage}

----------------------------------------------------------------------------
(* App *)

FallbackMessage == "An unexpected error occurred."
PromptMessage == "Please enter a prompt."
EditMessage == "Applying your creative edits..."
GenerateMessage == "Generating your vision..."

Prompts == {"", "a red balloon"}

Init ==
    /\ selectedImage = NullImage
    /\ prompt = ""
    /\ isLoading = FALSE
    /\ loadingMessage = ""
    /\ error = NoError
    /\ resultImage = Null
    /\ modalImageUrl = Null
    /\ reads = {}
    /\ inflight = {}
    /\ calls = 0
    /\ sent = <<>>

\* the textarea's onChange; the textarea is disabled while isLoading
setPrompt(p) ==
    /\ ~isLoading
    /\ p # prompt
    /\ prompt' = p
    /\ UNCHANGED <<selectedImage, isLoading, loadingMessage, error, resultImage,
                   modalImageUrl, reads, inflight, calls, sent>>

\* ImageUploader.handleFileChange up to its await: any file can be picked
handleFileChange(file) ==
    /\ Cardinality(reads) < MaxReads
    /\ file \notin reads
    /\ reads' = reads \cup {file}
    /\ UNCHANGED <<selectedImage, prompt, isLoading, loadingMessage, error,
                   resultImage, modalImageUrl, inflight, calls, sent>>

\* ImageUploader.handleDrop up to its await: only image/* files are read
handleDrop(file) ==
    /\ startsWith(file.type, ImageSlash)
    /\ Cardinality(reads) < MaxReads
    /\ file \notin reads
    /\ reads' = reads \cup {file}
    /\ UNCHANGED <<selectedImage, prompt, isLoading, loadingMessage, error,
                   resultImage, modalImageUrl, inflight, calls, sent>>

\* reader.onload: the promise resolves and onImageUpload = setSelectedImage
ReaderLoads(file, untyped) ==
    /\ file \in reads
    /\ reads' = reads \ {file}
    /\ selectedImage' = fileToImageData(file, untyped)
    /\ UNCHANGED <<prompt, isLoading, loadingMessage, error, resultImage,
                   modalImageUrl, inflight, calls, sent>>

\* reader.onerror: the promise rejects, the handler logs and ignores it
ReaderFails(file) ==
    /\ file \in reads
    /\ reads' = reads \ {file}
    /\ UNCHANGED <<selectedImage, prompt, isLoading, loadingMessage, error,
                   resultImage, modalImageUrl, inflight, calls, sent>>

\* the result pane shows the image and its buttons
ResultShown == ~isLoading /\ Truthy(resultImage)

\* the Refine button
handleUseResultAsInput ==
    /\ ResultShown
    /\ LET matched == MatchDataMime(resultImage)
           mimeType == IF Truthy(matched) THEN matched ELSE ImagePng
           base64 == SplitComma1(resultImage)
       IN  selectedImage' = [base64 |-> base64, mimeType |-> mimeType,
                             url |-> resultImage]
    /\ resultImage' = Null
    /\ UNCHANGED <<prompt, isLoading, loadingMessage, error, modalImageUrl,
                   reads, inflight, calls, sent>>

\* handleRemoveImage as it would be if it reset every field of the session
handleRemoveImage_resetsAll ==
    /\ selectedImage # NullImage
    /\ Truthy(selectedImage.url)
    /\ selectedImage' = NullImage
    /\ resultImage' = Null
    /\ error' = NoError
    /\ prompt' = ""
    /\ isLoading' = FALSE
    /\ loadingMessage' = ""
    /\ modalImageUrl' = Null
    /\ UNCHANGED <<reads, inflight, calls, sent>>

\* handleRemoveImage as it would be if it also abandoned the submission
handleRemoveImage_cancels ==
    /\ selectedImage # NullImage
    /\ Truthy(selectedImage.url)
    /\ selectedImage' = NullImage
    /\ resultImage' = Null
    /\ error' = NoError
    /\ isLoading' = FALSE
    /\ inflight' = {}
    /\ UNCHANGED <<prompt, loadingMessage, modalImageUrl, reads, calls, sent>>

\* the uploader's remove button, shown while there is a preview
handleRemoveImage ==
    /\ selectedImage # NullImage
    /\ Truthy(selectedImage.url)
    /\ selectedImage' = NullImage
    /\ resultImage' = Null
    /\ error' = NoError
    /\ UNCHANGED <<prompt, isLoading, loadingMessage, modalImageUrl, reads,
                   inflight, calls, sent>>

\* the Download button: a link to resultImage is clicked, no state is set
handleDownload ==
    /\ ResultShown
    /\ UNCHANGED vars

\* a click on the result opens the viewer
openModal ==
    /\ ResultShown
    /\ modalImageUrl' = resultImage
    /\ UNCHANGED <<selectedImage, prompt, isLoading, loadingMessage, error,
                   resultImage, reads, inflight, calls, sent>>

\* ImageModal's onClose; the modal is rendered while modalImageUrl is set
closeModal ==
    /\ Truthy(modalImageUrl)
    /\ modalImageUrl' = Null
    /\ UNCHANGED <<selectedImage, prompt, isLoading, loadingMessage, error,
                   resultImage, reads, inflight, calls, sent>>

\* isSubmitDisabled as it would be without the !prompt test
isSubmitDisabled_ignoresPrompt == isLoading

\* isSubmitDisabled as it would be without the isLoading test
isSubmitDisabled_ignoresLoading == prompt = ""

\* disabled={isSubmitDisabled} on the Generate button
isSubmitDisabled == prompt = "" \/ isLoading

\* handleSubmit as it would be without the empty-prompt return
handleSubmit_noValidation ==
    /\ calls < MaxSubmits
    /\ isLoading' = TRUE
    /\ error' = NoError
    /\ resultImage' = Null
    /\ loadingMessage' =
           (IF selectedImage # NullImage THEN EditMessage ELSE GenerateMessage)
    /\ sent' = BuildContentParts(prompt, selectedImage)
    /\ calls' = calls + 1
    /\ inflight' = inflight \cup
           {[id |-> calls + 1, stage |-> "generateOrEditImage", newImage |-> Null]}
    /\ UNCHANGED <<selectedImage, prompt, modalImageUrl, reads>>

\* handleSubmit up to its first await: validation, the state it sets and
\* the request generateOrEditImage issues
handleSubmit ==
    IF prompt = ""
        THEN /\ error' = PromptMessage
             /\ UNCHANGED <<selectedImage, prompt, isLoading, loadingMessage,
                            resultImage, modalImageUrl, reads, inflight, calls,
                            sent>>
        ELSE /\ calls < MaxSubmits
             /\ isLoading' = TRUE
             /\ error' = NoError
             /\ resultImage' = Null
             /\ loadingMessage' =
                    (IF selectedImage # NullImage THEN EditMessage ELSE GenerateMessage)
             /\ sent' = BuildContentParts(prompt, selectedImage)
             /\ calls' = calls + 1
             /\ inflight' = inflight \cup
                    {[id |-> calls + 1, stage |-> "generateOrEditImage", newImage |-> Null]}
             /\ UNCHANGED <<selectedImage, prompt, modalImageUrl, reads>>

\* a click on the Generate button
ClickSubmit ==
    /\ ~isSubmitDisabled
    /\ handleSubmit

\* ErrorMessage as it would be without the fallback
ErrorMessage_noFallback(message) == message

\* err.message || "An unexpected error occurred."
ErrorMessage(message) == IF TruthyMsg(message) THEN message ELSE FallbackMessage

\* the catch and finally blocks of the invocation s
CatchFinally(s, message) ==
    /\ error' = ErrorMessage(message)
    /\ isLoading' = FALSE
    /\ inflight' = inflight \ {s}
    /\ UNCHANGED <<selectedImage, prompt, loadingMessage, resultImage,
                   modalImageUrl, reads, calls, sent>>

\* the service answers the request of invocation s: generateOrEditImage
\* returns the image and addWatermark starts, or it throws
ServiceAnswers(s, response) ==
    /\ s \in inflight
    /\ s.stage = "generateOrEditImage"
    /\ LET r == generateOrEditImage(response)
       IN  IF r.ok
               THEN /\ inflight' = (inflight \ {s}) \cup
                           {[s EXCEPT !.stage = "addWatermark", !.newImage = r.value]}
                    /\ UNCHANGED <<selectedImage, prompt, isLoading, loadingMessage,
                                   error, resultImage, modalImageUrl, reads, calls,
                                   sent>>
               ELSE CatchFinally(s, r.message)

\* the service call of invocation s rejects
ServiceRejects(s, message) ==
    /\ s \in inflight
    /\ s.stage = "generateOrEditImage"
    /\ CatchFinally(s, message)

\* addWatermark resolves for invocation s: setResultImage, then finally
WatermarkResolves(s, bytes) ==
    /\ s \in inflight
    /\ s.stage = "addWatermark"
    /\ resultImage' = toDataURL(bytes)
    /\ isLoading' = FALSE
    /\ inflight' = inflight \ {s}
    /\ UNCHANGED <<selectedImage, prompt, loadingMessage, error, modalImageUrl,
                   reads, calls, sent>>

\* addWatermark rejects for invocation s
WatermarkRejects(s, message) ==
    /\ s \in inflight
    /\ s.stage = "addWatermark"
    /\ CatchFinally(s, message)

Next ==
    \/ \E p \in Prompts : setPrompt(p)
    \/ \E file \in Files : handleFileChange(file)
    \/ \E file \in Files : handleDrop(file)
    \/ \E file \in Files, untyped \in UntypedAs : ReaderLoads(file, untyped)
    \/ \E file \in Files : ReaderFails(file)
    \/ handleUseResultAsInput
    \/ handleRemoveImage
    \/ handleDownload
    \/ openModal
    \/ closeModal
    \/ ClickSubmit
    \/ \E s \in inflight, response \in Responses : ServiceAnswers(s, response)
    \/ \E s \in inflight, message \in ServiceErrors : ServiceRejects(s, message)
    \/ \E s \in inflight, bytes \in CanvasBytes : WatermarkResolves(s, bytes)
    \/ \E s \in inflight, message \in WatermarkErrors : WatermarkRejects(s, message)

Spec == Init /\ [][Next]_vars

\* handleSubmit called whatever the Generate button's state is: the
\* disabled attribute is the only guard, the handler itself has none
NextDirect ==
    \/ Next
    \/ handleSubmit

SpecDirect == Init /\ [][NextDirect]_vars

----------------------------------------------------------------------------
(* Properties *)

\* the invocation s is no longer suspended after the step
Ended(s) == \A t \in inflight' : t.id # s.id

\* the steps in which the invocation s fails, with the message thrown
FailsWith(s, message) ==
    \/ ServiceRejects(s, message)
    \/ WatermarkRejects(s, message)
    \/ /\ message = NoImageMessage
       /\ \E response \in Responses :
              /\ ~generateOrEditImage(response).ok
              /\ ServiceAnswers(s, response)

Thrown == ServiceErrors \cup WatermarkErrors \cup {NoImageMessage}

\* C1: resultImage and error are never both set, and the step that ends a
\* submission leaves exactly one of them set.
C1_ExclusiveOutcome ==
    /\ [](~(Truthy(resultImage) /\ TruthyMsg(error)))
    /\ [][\A s \in inflight : Ended(s) => (Truthy(resultImage') # TruthyMsg(error'))]_vars

\* the second submission ended with a result and no error
C1_Witness ==
    /\ Truthy(resultImage)
    /\ error = NoError
    /\ inflight = {}
    /\ calls = 2

\* C2: a submission whose service call or watermarking fails ends with
\* isLoading false, error set to the failure's message when it has one and
\* to the fallback otherwise, and resultImage empty; resultImage only ever
\* gets a value from a watermarking that resolved.
C2_FailureSurfaced ==
    /\ [][\A s \in inflight, message \in Thrown :
            FailsWith(s, message) =>
                /\ isLoading' = FALSE
                /\ error' = (IF message \in {"", NoMessage} THEN FallbackMessage ELSE message)
                /\ TruthyMsg(error')
                /\ resultImage' = Null
                /\ Ended(s)]_vars
    /\ [][(resultImage' # resultImage /\ Truthy(resultImage')) =>
            \E s \in inflight, bytes \in CanvasBytes :
                /\ s.stage = "addWatermark"
                /\ resultImage' = toDataURL(bytes)]_vars

\* a submission failed without a message of its own
C2_Witness ==
    /\ error = FallbackMessage
    /\ ~isLoading
    /\ resultImage = Null
    /\ inflight = {}
    /\ calls >= 1

\* C3: at most one submission is outstanding, isLoading is true while one
\* is, and no request is issued while isLoading is true.
C3_OneSubmission ==
    /\ [](Cardinality(inflight) <= 1 /\ (inflight # {} => isLoading))
    /\ [][isLoading => calls' = calls]_vars

\* the second submission is at its watermarking step
C3_Witness ==
    /\ isLoading
    /\ calls = 2
    /\ \E s \in inflight : s.stage = "addWatermark"

\* C4 as stated: handleRemoveImage leaves every field of the session empty.
C4_RemoveResetsAll ==
    [][handleRemoveImage =>
        /\ selectedImage' = NullImage
        /\ prompt' = ""
        /\ isLoading' = FALSE
        /\ loadingMessage' = ""
        /\ error' = NoError
        /\ resultImage' = Null
        /\ modalImageUrl' = Null]_vars

\* C4 as amended: handleRemoveImage empties selectedImage, resultImage and
\* error and leaves prompt, isLoading, loadingMessage and modalImageUrl as
\* they were.
C4_RemoveResetsThree ==
    [][handleRemoveImage =>
        /\ selectedImage' = NullImage
        /\ resultImage' = Null
        /\ error' = NoError
        /\ UNCHANGED <<prompt, isLoading, loadingMessage, modalImageUrl>>]_vars

\* the image was removed while a submission that sent it is outstanding:
\* the prompt and the busy state are still there
C4_Witness ==
    /\ selectedImage = NullImage
    /\ resultImage = Null
    /\ error = NoError
    /\ prompt # ""
    /\ isLoading
    /\ loadingMessage = EditMessage
    /\ inflight # {}
    /\ Len(sent) = 2

\* C5 as stated: a display reference that generateOrEditImage returned
\* never has empty image bytes.
C5_NeverEmptyBytes ==
    \A s \in inflight :
        s.stage = "addWatermark" =>
            \A mimeType \in {ImagePng, ImageJpeg} : s.newImage # DataUrl(mimeType, <<>>)

\* C6: while the prompt is empty no step issues a request or raises
\* isLoading, and handleSubmit sets error to "Please enter a prompt.".
C6_EmptyPromptRejected ==
    /\ [][prompt = "" =>
            /\ calls' = calls
            /\ sent' = sent
            /\ {t.id : t \in inflight'} \subseteq {s.id : s \in inflight}
            /\ (isLoading' => isLoading)]_vars
    /\ [][(prompt = "" /\ handleSubmit) => error' = PromptMessage]_vars

\* handleSubmit ran with an empty prompt while a result was displayed
C6_Witness ==
    /\ error = PromptMessage
    /\ prompt = ""
    /\ Truthy(resultImage)
    /\ ~isLoading
    /\ calls = 1

\* C7 as stated: handleUseResultAsInput leaves prompt, isLoading and error
\* alone, empties resultImage, and afterwards modalImageUrl does not hold
\* the promoted value.
C7_RefineForgetsResult ==
    [][handleUseResultAsInput =>
        /\ UNCHANGED <<prompt, isLoading, error>>
        /\ resultImage' = Null
        /\ selectedImage'.url = resultImage
        /\ modalImageUrl' # resultImage]_vars

\* C8 as stated: the url of selectedImage is "data:" + mimeType +
\* ";base64," + base64.
C8_DisplayReference ==
    selectedImage # NullImage =>
        selectedImage.url =
            DataPrefix \o selectedImage.mimeType \o Base64Marker \o selectedImage.base64

\* C9: when the service answers, generateOrEditImage returns the data URL
\* of the first part that has inlineData, and throws NoImageMessage exactly
\* when no part has.
C9_FirstInlinePart ==
    [][\A s \in inflight, response \in Responses :
        ServiceAnswers(s, response) =>
            LET parts == IF response.hasParts THEN response.parts ELSE <<>>
                inline == {i \in 1..Len(parts) : parts[i].kind = "inlineData"}
            IN  IF inline = {}
                    THEN error' = NoImageMessage /\ Ended(s)
                    ELSE /\ error' = error
                         /\ \A j \in 1..(Min(inline) - 1) : parts[j].kind = "text"
                         /\ \E t \in inflight' :
                                /\ t.id = s.id
                                /\ t.stage = "addWatermark"
                                /\ t.newImage =
                                       DataPrefix \o parts[Min(inline)].mimeType
                                           \o Base64Marker \o parts[Min(inline)].data]_vars

\* the jpeg part was returned: in the answers of the model it comes first
\* or after text or before a png part
C9_Witness ==
    \E s \in inflight :
        /\ s.stage = "addWatermark"
        /\ s.newImage = DataUrl(ImageJpeg, <<"B", "B">>)

\* C10: the request carries the selectedImage and prompt of the moment
\* handleSubmit ran; a file that finishes loading and handleRemoveImage
\* leave the outstanding submission, the request it sent and isLoading as
\* they were; a watermarking that resolves stores its output in resultImage.
C10_NoCancellation ==
    /\ [][calls' # calls =>
            sent' = (IF selectedImage = NullImage
                        THEN <<TextPart(prompt)>>
                        ELSE <<InlinePart(selectedImage.base64, selectedImage.mimeType),
                               TextPart(prompt)>>)]_vars
    /\ [][(handleRemoveImage \/ selectedImage' # selectedImage) =>
            UNCHANGED <<inflight, sent, calls, isLoading>>]_vars
    /\ [][\A s \in inflight :
            (s.stage = "addWatermark" /\ Ended(s) /\ error' = error) =>
                (Truthy(resultImage') /\ ~isLoading')]_vars

\* the only request carried a seed image, the image is gone and the result
\* is there: the image was removed while the submission was outstanding
C10_Witness ==
    /\ calls = 1
    /\ Len(sent) = 2
    /\ selectedImage = NullImage
    /\ Truthy(resultImage)
    /\ inflight = {}

====
